---- MODULE Spec2Model ----
(***************************************************************************)
(* Model of the WebSocketManager of src/src/utils/websocket.js together    *)
(* with the CacheManager of src/src/utils/cache.js it stores through.      *)
(*                                                                         *)
(* The manager runs on one event loop.  A handler runs without             *)
(* interruption up to an `await` on a cache operation.  When the Redis     *)
(* client is connected the operation is queued on the single Redis         *)
(* connection (replies come back in issue order) and the handler is        *)
(* suspended; other handlers run meanwhile.  When the client is not ready  *)
(* cache.get / cache.set return null / false without I/O, so the handler   *)
(* goes on in the same turn of the event loop (variable `running`).        *)
(*                                                                         *)
(* Not modelled: key expiry (the TTLs are minutes to days), the activity   *)
(* list of the room metadata record, connectionStats, the activeRooms and  *)
(* messageHistory Maps (nothing ever puts an entry in them), the log       *)
(* output, the payload fields that carry texts and timestamps.  The await  *)
(* of the placeholder validateRoomAccess does no I/O and is taken together *)
(* with the arrival of join_room.                                          *)
(***************************************************************************)
EXTENDS Integers, Sequences, FiniteSets, TLC

\* ---------------------------------------------------------------- bounds
MaxSockets == 2      \* connections opened in one run
MaxMsgs == 2         \* message ids generated in one run
MaxRoomMsgs == 1     \* of them in a run with joins, leaves and disconnects
MaxNotifs == 1       \* notifications handed to sendNotificationToUser
MaxInFlight == 2     \* handlers suspended on a cache operation at once
MaxClock == 1        \* milliseconds Date.now() advances in one run
MaxRand == 2         \* distinct values of the random id suffix

\* ------------------------------------------------------ program constants
RoomHistoryCap == 50
HistoryReplay == 20
PrivateCap == 100
OfflineCap == 50

Users == {"A", "B"}
Rooms == {"general"}
Bodies == {"", " ", "hi"}
\* a payload without the field
Undefined == "<undefined>"
Payloads == Bodies \cup {Undefined}

NoSocket == 0
NoUser == "-"
NoRoom == "-"

UserRoom(u) == "user:" \o u
RoleRoom == "role:user"
\* every room name a socket can be in (its own socket.id room is left out:
\* no command of the model names it)
RoomIds == Rooms \cup {UserRoom(u) : u \in Users} \cup {RoleRoom}

VARIABLES
  sockets,         \* the Socket objects handed to handleConnection, in order
  connectedUsers,  \* Map userId -> socket
  userSockets,     \* Map socket.id -> userId
  rooms,           \* Map roomId -> Set of userIds
  cache,           \* the Redis keys the manager writes
  isConnected,     \* CacheManager.isConnected
  redisQueue,      \* handlers suspended on a Redis command, in issue order
  running,         \* handler continuing in the current turn, or NoTask
  issued,          \* the message objects created so far, in creation order
  notified,        \* number of notifications passed to sendNotificationToUser
  now,             \* Date.now()
  inbox,           \* per socket: the new_message events its client received
  out              \* the events the last step delivered to clients

vars == <<sockets, connectedUsers, userSockets, rooms, cache, isConnected,
          redisQueue, running, issued, notified, now, inbox, out>>

\* ------------------------------------------------------------ Map helpers
EmptyMap == <<>>
MapHas(m, k) == k \in DOMAIN m
MapSet(m, k, v) == [x \in (DOMAIN m) \cup {k} |-> IF x = k THEN v ELSE m[x]]
MapDelete(m, k) == [x \in (DOMAIN m) \ {k} |-> m[x]]
\* (await cache.get(key)) || dflt, on a hit or a miss
GetOr(m, k, dflt) == IF k \in DOMAIN m THEN m[k] ELSE dflt

SocketIds == 1..Len(sockets)
IsOpen(s) == s \in SocketIds /\ sockets[s].connected

\* ---------------------------------------------------------------- events
Ev(to, ev, userId, roomId, data, error) ==
  [to |-> to, ev |-> ev, userId |-> userId, roomId |-> roomId, data |-> data,
   error |-> error]

\* socket.emit(ev, ...): a packet for a closed socket is discarded
SocketEmit(s, ev, userId, roomId, data, error) ==
  IF IsOpen(s) THEN {Ev(s, ev, userId, roomId, data, error)} ELSE {}

\* the sockets the adapter holds in a room
InRoom(roomId) == {s \in SocketIds : roomId \in sockets[s].rooms}

\* io.to(roomId).emit(ev, ...)
IoToEmit(roomId, ev, userId, data) ==
  {Ev(s, ev, userId, roomId, data, "") : s \in InRoom(roomId)}

\* socket.to(roomId).emit(ev, ...): the room except the socket itself
SocketToEmit(s, roomId, ev, userId, data) ==
  {Ev(r, ev, userId, roomId, data, "") : r \in InRoom(roomId) \ {s}}

\* -------------------------------------------------------------- handlers
NoTask == [kind |-> "none", pc |-> "-", socket |-> NoSocket, userId |-> NoUser,
           roomId |-> NoRoom, target |-> NoUser, msg |-> 0, val |-> <<>>,
           flag |-> FALSE]

Task(kind, pc, s, u, r, target, m, val, flag) ==
  [kind |-> kind, pc |-> pc, socket |-> s, userId |-> u, roomId |-> r,
   target |-> target, msg |-> m, val |-> val, flag |-> flag]

Idle == running = NoTask

\* a handler that will call the cache can start: the model holds at most
\* MaxInFlight suspended handlers (none is suspended while Redis is away)
CanSuspend == ~isConnected \/ Len(redisQueue) < MaxInFlight

\* `await cache.get/set(...)` reached by handler t, q being the Redis queue:
\* isReady() decides between a queued command and an immediate null / false
Await(t, q) ==
  IF isConnected
    THEN /\ redisQueue' = Append(q, t)
         /\ running' = NoTask
    ELSE /\ redisQueue' = q
         /\ running' = t

Finish(q) ==
  /\ redisQueue' = q
  /\ running' = NoTask

EmptyCache ==
  [messages |-> EmptyMap, metadata |-> EmptyMap, private |-> EmptyMap,
   offline |-> EmptyMap, online |-> EmptyMap]

Init ==
  /\ sockets = <<>>
  /\ connectedUsers = EmptyMap
  /\ userSockets = EmptyMap
  /\ rooms = EmptyMap
  /\ cache = EmptyCache
  /\ isConnected = TRUE
  /\ redisQueue = <<>>
  /\ running = NoTask
  /\ issued = <<>>
  /\ notified = 0
  /\ now = 0
  /\ inbox = <<>>
  /\ out = {}

\* ------------------------------------------------- connection, disconnect
\* handleConnection that keeps an existing registry entry of the user
HandleConnection_KeepFirst(u) ==
  LET s == Len(sockets) + 1 IN
  /\ Idle /\ CanSuspend
  /\ Len(sockets) < MaxSockets
  /\ connectedUsers' = IF MapHas(connectedUsers, u) THEN connectedUsers
                        ELSE MapSet(connectedUsers, u, s)
  /\ userSockets' = MapSet(userSockets, s, u)
  /\ sockets' = Append(sockets, [userId |-> u, connected |-> TRUE,
                                 rooms |-> {UserRoom(u), RoleRoom}])
  /\ inbox' = Append(inbox, <<>>)
  /\ out' = {Ev(s, "connected", u, NoRoom, <<>>, ""),
             Ev(s, "active_rooms", u, NoRoom, <<>>, "")}
  /\ Await(Task("connect", "online_set", s, u, NoRoom, NoUser, 0, <<>>, TRUE),
           redisQueue)
  /\ UNCHANGED <<rooms, cache, isConnected, issued, notified, now>>

\* handleConnection(socket) for a new socket of user u
HandleConnection(u) ==
  LET s == Len(sockets) + 1 IN
  /\ Idle /\ CanSuspend
  /\ Len(sockets) < MaxSockets
  /\ connectedUsers' = MapSet(connectedUsers, u, s)
  /\ userSockets' = MapSet(userSockets, s, u)
  /\ sockets' = Append(sockets, [userId |-> u, connected |-> TRUE,
                                 rooms |-> {UserRoom(u), RoleRoom}])
  /\ inbox' = Append(inbox, <<>>)
  /\ out' = {Ev(s, "connected", u, NoRoom, <<>>, ""),
             Ev(s, "active_rooms", u, NoRoom, <<>>, "")}
  \* updateUserOnlineStatus(userId, true), not awaited
  /\ Await(Task("connect", "online_set", s, u, NoRoom, NoUser, 0, <<>>, TRUE),
           redisQueue)
  /\ UNCHANGED <<rooms, cache, isConnected, issued, notified, now>>

\* the transport closes socket s (it leaves its rooms, then 'disconnect' is
\* emitted) and handleDisconnection(socket) runs up to its await
HandleDisconnection(s) ==
  /\ Idle /\ CanSuspend
  /\ IsOpen(s)
  /\ sockets' = [sockets EXCEPT ![s].connected = FALSE, ![s].rooms = {}]
  /\ connectedUsers' = MapDelete(connectedUsers, sockets[s].userId)
  /\ userSockets' = MapDelete(userSockets, s)
  /\ out' = {}
  /\ Await(Task("disconnect", "online_set", s, sockets[s].userId, NoRoom,
                NoUser, 0, <<>>, FALSE), redisQueue)
  /\ UNCHANGED <<rooms, cache, isConnected, issued, notified, now, inbox>>

\* cleanupEmptyRooms(): the rooms Map without its empty member sets
CleanupEmptyRooms(rm) ==
  [r \in {x \in DOMAIN rm : rm[x] # {}} |-> rm[r]]

\* updateUserOnlineStatus after its cache.set: broadcastToRoom(`user:${id}`)
StatusChanged(u, isOnline) ==
  IoToEmit(UserRoom(u), "user_status_changed", u,
           <<IF isOnline THEN 1 ELSE 0>>)

\* cache.set(`user:${userId}:online`, isOnline) answered (ok) or not
OnlineWritten(t, ok) ==
  IF ok THEN [cache EXCEPT !.online = MapSet(@, t.userId, t.flag)] ELSE cache

\* handleConnection's updateUserOnlineStatus after its await
ResumeConnect(t, ok, q) ==
  /\ cache' = OnlineWritten(t, ok)
  /\ out' = StatusChanged(t.userId, t.flag)
  /\ Finish(q)
  /\ UNCHANGED <<sockets, connectedUsers, userSockets, rooms, isConnected,
                 issued, notified, now, inbox>>

\* handleDisconnection after `await this.updateUserOnlineStatus(userId, false)`
ResumeDisconnect(t, ok, q) ==
  LET s == t.socket
      userRooms == sockets[s].rooms
  IN
  /\ cache' = OnlineWritten(t, ok)
  /\ out' = StatusChanged(t.userId, t.flag) \cup
            UNION {SocketToEmit(s, r, "user_offline", t.userId, <<>>) :
                   r \in userRooms}
  /\ rooms' = CleanupEmptyRooms(rooms)
  /\ Finish(q)
  /\ UNCHANGED <<sockets, connectedUsers, userSockets, isConnected, issued,
                 notified, now, inbox>>

\* ----------------------------------------------------------- join, leave
\* validateRoomAccess(userId, roomId, password): the placeholder
ValidateRoomAccess(u, r) == [allowed |-> TRUE, reason |-> ""]

\* handleJoinRoom that replaces the member set of the room by a new one
HandleJoinRoom_NewSet(s, r) ==
  LET u == sockets[s].userId
      canJoin == ValidateRoomAccess(u, r)
  IN
  /\ Idle /\ CanSuspend
  /\ IsOpen(s)
  /\ IF ~canJoin.allowed
       THEN /\ out' = SocketEmit(s, "join_room_error", u, r, <<>>, canJoin.reason)
            /\ UNCHANGED <<sockets, rooms, redisQueue, running>>
       ELSE /\ sockets' = [sockets EXCEPT ![s].rooms = @ \cup {r}]
            /\ rooms' = MapSet(rooms, r, {u})
            /\ out' = {}
            /\ Await(Task("join", "meta_get", s, u, r, NoUser, 0, <<>>, FALSE),
                     redisQueue)
  /\ UNCHANGED <<connectedUsers, userSockets, cache, isConnected, issued,
                 notified, now, inbox>>

\* handleJoinRoom that joins the transport room and creates the member set
\* but does not add the user to it
HandleJoinRoom_NoAdd(s, r) ==
  LET u == sockets[s].userId
      canJoin == ValidateRoomAccess(u, r)
  IN
  /\ Idle /\ CanSuspend
  /\ IsOpen(s)
  /\ IF ~canJoin.allowed
       THEN /\ out' = SocketEmit(s, "join_room_error", u, r, <<>>, canJoin.reason)
            /\ UNCHANGED <<sockets, rooms, redisQueue, running>>
       ELSE /\ sockets' = [sockets EXCEPT ![s].rooms = @ \cup {r}]
            /\ rooms' = MapSet(rooms, r, GetOr(rooms, r, {}))
            /\ out' = {}
            /\ Await(Task("join", "meta_get", s, u, r, NoUser, 0, <<>>, FALSE),
                     redisQueue)
  /\ UNCHANGED <<connectedUsers, userSockets, cache, isConnected, issued,
                 notified, now, inbox>>

\* handleJoinRoom(socket, {roomId}) up to `await this.updateRoomMetadata`
HandleJoinRoom(s, r) ==
  LET u == sockets[s].userId
      canJoin == ValidateRoomAccess(u, r)
  IN
  /\ Idle /\ CanSuspend
  /\ IsOpen(s)
  /\ IF ~canJoin.allowed
       THEN /\ out' = SocketEmit(s, "join_room_error", u, r, <<>>, canJoin.reason)
            /\ UNCHANGED <<sockets, rooms, redisQueue, running>>
       ELSE /\ sockets' = [sockets EXCEPT ![s].rooms = @ \cup {r}]
            /\ rooms' = MapSet(rooms, r, GetOr(rooms, r, {}) \cup {u})
            /\ out' = {}
            /\ Await(Task("join", "meta_get", s, u, r, NoUser, 0, <<>>, FALSE),
                     redisQueue)
  /\ UNCHANGED <<connectedUsers, userSockets, cache, isConnected, issued,
                 notified, now, inbox>>

\* handleLeaveRoom that leaves the emptied member set in the rooms Map
HandleLeaveRoom_KeepEmpty(s, r) ==
  LET u == sockets[s].userId IN
  /\ Idle /\ CanSuspend
  /\ IsOpen(s)
  /\ sockets' = [sockets EXCEPT ![s].rooms = @ \ {r}]
  /\ rooms' = IF MapHas(rooms, r) THEN MapSet(rooms, r, rooms[r] \ {u}) ELSE rooms
  /\ out' = {}
  /\ Await(Task("leave", "meta_get", s, u, r, NoUser, 0, <<>>, FALSE), redisQueue)
  /\ UNCHANGED <<connectedUsers, userSockets, cache, isConnected, issued,
                 notified, now, inbox>>

\* handleLeaveRoom(socket, {roomId}) up to `await this.updateRoomMetadata`
HandleLeaveRoom(s, r) ==
  LET u == sockets[s].userId
      left == IF MapHas(rooms, r) THEN MapSet(rooms, r, rooms[r] \ {u}) ELSE rooms
  IN
  /\ Idle /\ CanSuspend
  /\ IsOpen(s)
  /\ sockets' = [sockets EXCEPT ![s].rooms = @ \ {r}]
  /\ rooms' = IF MapHas(left, r) /\ left[r] = {} THEN MapDelete(left, r) ELSE left
  /\ out' = {}
  /\ Await(Task("leave", "meta_get", s, u, r, NoUser, 0, <<>>, FALSE), redisQueue)
  /\ UNCHANGED <<connectedUsers, userSockets, cache, isConnected, issued,
                 notified, now, inbox>>

Includes(seq, x) == \E i \in 1..Len(seq) : seq[i] = x
Filter(seq, x) == SelectSeq(seq, LAMBDA y : y # x)
\* Array.prototype.slice(0, n)
Last_First(seq, n) == IF Len(seq) <= n THEN seq ELSE SubSeq(seq, 1, n)

\* Array.prototype.slice(-n)
Last(seq, n) == IF Len(seq) <= n THEN seq ELSE SubSeq(seq, Len(seq) - n + 1, Len(seq))
\* push(x), then pop() when the array is longer than cap
PushCapped_Pop(seq, x, cap) ==
  LET pushed == Append(seq, x) IN IF Len(pushed) > cap THEN seq ELSE pushed

\* push(x), then shift() when the array is longer than cap
PushCapped(seq, x, cap) ==
  LET pushed == Append(seq, x) IN IF Len(pushed) > cap THEN Tail(pushed) ELSE pushed

\* updateRoomMetadata after `await cache.get(key)`: the members list it writes
MetadataMembers(members, u, action) ==
  IF action = "joined" /\ ~Includes(members, u) THEN Append(members, u)
  ELSE IF action = "left" THEN Filter(members, u)
  ELSE members

\* handleJoinRoom / handleLeaveRoom resumed after a cache operation
ResumeJoinLeave(t, ok, q) ==
  LET s == t.socket
      u == t.userId
      r == t.roomId
  IN
  /\ UNCHANGED <<sockets, connectedUsers, userSockets, rooms, isConnected,
                 issued, notified, now, inbox>>
  /\ CASE t.pc = "meta_get" ->
            LET members == IF ok THEN GetOr(cache.metadata, r, <<>>) ELSE <<>> IN
            /\ cache' = cache
            /\ out' = {}
            /\ Await([t EXCEPT !.pc = "meta_set",
                               !.val = MetadataMembers(members, u,
                                    IF t.kind = "join" THEN "joined" ELSE "left")], q)
       [] t.pc = "meta_set" /\ t.kind = "join" ->
            /\ cache' = IF ok THEN [cache EXCEPT !.metadata = MapSet(@, r, t.val)]
                        ELSE cache
            /\ out' = SocketEmit(s, "joined_room", u, r, <<>>, "") \cup
                      SocketToEmit(s, r, "user_joined_room", u, <<>>)
            \* await this.sendMessageHistory(socket, roomId)
            /\ Await([t EXCEPT !.pc = "hist_get", !.val = <<>>], q)
       [] t.pc = "meta_set" /\ t.kind = "leave" ->
            /\ cache' = IF ok THEN [cache EXCEPT !.metadata = MapSet(@, r, t.val)]
                        ELSE cache
            /\ out' = SocketEmit(s, "left_room", u, r, <<>>, "") \cup
                      SocketToEmit(s, r, "user_left_room", u, <<>>)
            /\ Finish(q)
       [] t.pc = "hist_get" ->
            LET messages == IF ok THEN GetOr(cache.messages, r, <<>>) ELSE <<>> IN
            /\ cache' = cache
            /\ out' = SocketEmit(s, "message_history", u, r,
                                 Last(messages, HistoryReplay), "")
            /\ Finish(q)

\* ---------------------------------------------------------------- messages
\* String.prototype.trim() on the bodies of the model
Trim(body) == IF body = " " THEN "" ELSE body

\* generateMessageId(): `msg_${Date.now()}_${random suffix}`
GenerateMessageId(rnd) == [time |-> now, rand |-> rnd]

\* messageObj: its id, and its roomId (NoRoom for a private message)
MessageObj(rnd, r) == [id |-> GenerateMessageId(rnd), roomId |-> r]

\* the order of two ids as strings of equal length
IdLess(a, b) == a.time < b.time \/ (a.time = b.time /\ a.rand < b.rand)

\* handleSendMessage that builds the message object, id included, before it
\* validates the command
HandleSendMessage_IdFirst(s, r, body, rnd) ==
  LET u == sockets[s].userId
      k == Len(issued) + 1
  IN
  /\ Idle /\ CanSuspend
  /\ IsOpen(s)
  /\ UNCHANGED <<sockets, connectedUsers, userSockets, rooms, cache, isConnected,
                 notified, now, inbox>>
  /\ Len(issued) < MaxMsgs
  /\ issued' = Append(issued, MessageObj(rnd, r))
  /\ IF Trim(body) = ""
       THEN /\ out' = SocketEmit(s, "message_error", u, NoRoom, <<>>, "empty_message")
            /\ UNCHANGED <<redisQueue, running>>
     ELSE IF r \notin sockets[s].rooms
       THEN /\ out' = SocketEmit(s, "message_error", u, NoRoom, <<>>, "not_in_room")
            /\ UNCHANGED <<redisQueue, running>>
     ELSE /\ out' = {}
          /\ Await(Task("send", "msgs_get", s, u, r, NoUser, k, <<>>, FALSE),
                   redisQueue)

\* handleSendMessage(socket, {roomId, message}) up to `await this.storeMessage`
HandleSendMessage(s, r, body, rnd) ==
  LET u == sockets[s].userId
      k == Len(issued) + 1
  IN
  /\ Idle /\ CanSuspend
  /\ IsOpen(s)
  /\ UNCHANGED <<sockets, connectedUsers, userSockets, rooms, cache, isConnected,
                 notified, now, inbox>>
  /\ IF Trim(body) = ""
       THEN /\ out' = SocketEmit(s, "message_error", u, NoRoom, <<>>, "empty_message")
            /\ UNCHANGED <<issued, redisQueue, running>>
     ELSE IF r \notin sockets[s].rooms
       THEN /\ out' = SocketEmit(s, "message_error", u, NoRoom, <<>>, "not_in_room")
            /\ UNCHANGED <<issued, redisQueue, running>>
     ELSE /\ Len(issued) < MaxMsgs
          /\ issued' = Append(issued, MessageObj(rnd, r))
          /\ out' = {}
          /\ Await(Task("send", "msgs_get", s, u, r, NoUser, k, <<>>, FALSE),
                   redisQueue)

\* io.to(roomId).emit('new_message', messageObj) as the clients record it
Received(r, k) ==
  [s \in SocketIds |-> IF s \in InRoom(r) THEN Append(inbox[s], k) ELSE inbox[s]]

\* handleSendMessage that broadcasts new_message as soon as it has read the
\* history, before it writes the history back
ResumeSend_FanOutFirst(t, ok, q) ==
  LET s == t.socket
      r == t.roomId
  IN
  /\ UNCHANGED <<sockets, connectedUsers, userSockets, rooms, isConnected,
                 issued, notified, now>>
  /\ CASE t.pc = "msgs_get" ->
            LET messages == IF ok THEN GetOr(cache.messages, r, <<>>) ELSE <<>> IN
            /\ cache' = cache
            /\ out' = IoToEmit(r, "new_message", t.userId, <<t.msg>>)
            /\ inbox' = Received(r, t.msg)
            /\ Await([t EXCEPT !.pc = "msgs_set",
                               !.val = PushCapped(messages, t.msg, RoomHistoryCap)], q)
       [] t.pc = "msgs_set" ->
            /\ cache' = IF ok THEN [cache EXCEPT !.messages = MapSet(@, r, t.val)]
                        ELSE cache
            /\ out' = SocketEmit(s, "message_sent", t.userId, NoRoom, <<t.msg>>, "")
            /\ inbox' = inbox
            /\ Finish(q)

\* handleSendMessage resumed, with a cache.set that throws when it cannot
\* write: the catch block answers message_error and nothing is broadcast
ResumeSend_Throw(t, ok, q) ==
  LET s == t.socket
      r == t.roomId
  IN
  /\ UNCHANGED <<sockets, connectedUsers, userSockets, rooms, isConnected,
                 issued, notified, now>>
  /\ CASE t.pc = "msgs_get" ->
            LET messages == IF ok THEN GetOr(cache.messages, r, <<>>) ELSE <<>> IN
            /\ cache' = cache
            /\ out' = {}
            /\ inbox' = inbox
            /\ Await([t EXCEPT !.pc = "msgs_set",
                               !.val = PushCapped(messages, t.msg, RoomHistoryCap)], q)
       [] t.pc = "msgs_set" /\ ok ->
            /\ cache' = [cache EXCEPT !.messages = MapSet(@, r, t.val)]
            /\ out' = IoToEmit(r, "new_message", t.userId, <<t.msg>>) \cup
                      SocketEmit(s, "message_sent", t.userId, NoRoom, <<t.msg>>, "")
            /\ inbox' = Received(r, t.msg)
            /\ Finish(q)
       [] t.pc = "msgs_set" /\ ~ok ->
            /\ cache' = cache
            /\ out' = SocketEmit(s, "message_error", t.userId, NoRoom, <<>>,
                                 "message_failed")
            /\ inbox' = inbox
            /\ Finish(q)

\* handleSendMessage resumed inside and after storeMessage
ResumeSend(t, ok, q) ==
  LET s == t.socket
      r == t.roomId
  IN
  /\ UNCHANGED <<sockets, connectedUsers, userSockets, rooms, isConnected,
                 issued, notified, now>>
  /\ CASE t.pc = "msgs_get" ->
            LET messages == IF ok THEN GetOr(cache.messages, r, <<>>) ELSE <<>> IN
            /\ cache' = cache
            /\ out' = {}
            /\ inbox' = inbox
            /\ Await([t EXCEPT !.pc = "msgs_set",
                               !.val = PushCapped(messages, t.msg, RoomHistoryCap)], q)
       [] t.pc = "msgs_set" ->
            /\ cache' = IF ok THEN [cache EXCEPT !.messages = MapSet(@, r, t.val)]
                        ELSE cache
            /\ out' = IoToEmit(r, "new_message", t.userId, <<t.msg>>) \cup
                      SocketEmit(s, "message_sent", t.userId, NoRoom, <<t.msg>>, "")
            /\ inbox' = Received(r, t.msg)
            /\ Finish(q)

\* handleTypingStart / handleTypingStop (socket, {roomId})
HandleTyping(s, r, typing) ==
  /\ Idle
  /\ IsOpen(s)
  /\ out' = SocketToEmit(s, r, "user_typing", sockets[s].userId,
                         <<IF typing THEN 1 ELSE 0>>)
  /\ UNCHANGED <<sockets, connectedUsers, userSockets, rooms, cache, isConnected,
                 redisQueue, running, issued, notified, now, inbox>>

HandleTypingStart(s, r) == HandleTyping(s, r, TRUE)
HandleTypingStop(s, r) == HandleTyping(s, r, FALSE)

\* handlePrivateMessage(socket, {targetUserId, message}) up to
\* `await this.storePrivateMessage`; `message.trim()` throws a TypeError
\* when the payload has no message, and the catch block only logs
HandlePrivateMessageData(s, target, body, rnd) ==
  LET u == sockets[s].userId
      k == Len(issued) + 1
  IN
  /\ Idle /\ CanSuspend
  /\ IsOpen(s)
  /\ UNCHANGED <<sockets, connectedUsers, userSockets, rooms, cache, isConnected,
                 notified, now, inbox>>
  /\ IF ~MapHas(connectedUsers, target)
       THEN /\ out' = SocketEmit(s, "private_message_error", target, NoRoom, <<>>,
                                 "user_offline")
            /\ UNCHANGED <<issued, redisQueue, running>>
     ELSE IF body = Undefined
       THEN /\ out' = {}
            /\ UNCHANGED <<issued, redisQueue, running>>
       ELSE /\ Len(issued) < MaxMsgs
            /\ issued' = Append(issued, MessageObj(rnd, NoRoom))
            /\ out' = SocketEmit(connectedUsers[target], "private_message", u,
                                 NoRoom, <<k>>, "") \cup
                      SocketEmit(s, "private_message_sent", target, NoRoom, <<k>>, "")
            /\ Await(Task("private", "priv_get", s, u, NoRoom, target, k, <<>>, FALSE),
                     redisQueue)

\* handlePrivateMessage for a payload with a message text
HandlePrivateMessage(s, target, rnd) == HandlePrivateMessageData(s, target, "hi", rnd)

\* handlePrivateMessage resumed inside and after storePrivateMessage
ResumePrivate(t, ok, q) ==
  /\ UNCHANGED <<sockets, connectedUsers, userSockets, rooms, isConnected,
                 issued, notified, now, inbox>>
  /\ out' = {}
  /\ CASE t.pc = "priv_get" ->
            LET messages == IF ok THEN GetOr(cache.private, t.target, <<>>) ELSE <<>> IN
            /\ cache' = cache
            /\ Await([t EXCEPT !.pc = "priv_set",
                               !.val = PushCapped(messages, t.msg, PrivateCap)], q)
       [] t.pc = "priv_set" ->
            /\ cache' = IF ok THEN [cache EXCEPT !.private = MapSet(@, t.target, t.val)]
                        ELSE cache
            /\ Finish(q)

\* sendNotificationToUser that stores the notification in either case
SendNotificationToUser_AlwaysStore(u) ==
  LET n == notified + 1 IN
  /\ Idle /\ CanSuspend
  /\ notified < MaxNotifs
  /\ notified' = n
  /\ UNCHANGED <<sockets, connectedUsers, userSockets, rooms, cache, isConnected,
                 issued, now, inbox>>
  /\ out' = IF MapHas(connectedUsers, u)
              THEN SocketEmit(connectedUsers[u], "notification", u, NoRoom, <<n>>, "")
              ELSE {}
  /\ Await(Task("notify", "off_get", NoSocket, u, NoRoom, NoUser, n, <<>>, FALSE),
           redisQueue)

\* sendNotificationToUser(userId, notification), called by the application
SendNotificationToUser(u) ==
  LET n == notified + 1 IN
  /\ Idle /\ CanSuspend
  /\ notified < MaxNotifs
  /\ notified' = n
  /\ UNCHANGED <<sockets, connectedUsers, userSockets, rooms, cache, isConnected,
                 issued, now, inbox>>
  /\ IF MapHas(connectedUsers, u)
       THEN /\ out' = SocketEmit(connectedUsers[u], "notification", u, NoRoom, <<n>>, "")
            /\ UNCHANGED <<redisQueue, running>>
       ELSE /\ out' = {}
            /\ Await(Task("notify", "off_get", NoSocket, u, NoRoom, NoUser, n, <<>>, FALSE),
                     redisQueue)

\* storeOfflineNotification without the shift() of a queue over capacity
ResumeNotify_NoShift(t, ok, q) ==
  /\ UNCHANGED <<sockets, connectedUsers, userSockets, rooms, isConnected,
                 issued, notified, now, inbox>>
  /\ out' = {}
  /\ CASE t.pc = "off_get" ->
            LET notifications == IF ok THEN GetOr(cache.offline, t.userId, <<>>) ELSE <<>> IN
            /\ cache' = cache
            /\ Await([t EXCEPT !.pc = "off_set",
                               !.val = Append(notifications, t.msg)], q)
       [] t.pc = "off_set" ->
            /\ cache' = IF ok THEN [cache EXCEPT !.offline = MapSet(@, t.userId, t.val)]
                        ELSE cache
            /\ Finish(q)

\* sendNotificationToUser resumed inside and after storeOfflineNotification
ResumeNotify(t, ok, q) ==
  /\ UNCHANGED <<sockets, connectedUsers, userSockets, rooms, isConnected,
                 issued, notified, now, inbox>>
  /\ out' = {}
  /\ CASE t.pc = "off_get" ->
            LET notifications == IF ok THEN GetOr(cache.offline, t.userId, <<>>) ELSE <<>> IN
            /\ cache' = cache
            /\ Await([t EXCEPT !.pc = "off_set",
                               !.val = PushCapped(notifications, t.msg, OfflineCap)], q)
       [] t.pc = "off_set" ->
            /\ cache' = IF ok THEN [cache EXCEPT !.offline = MapSet(@, t.userId, t.val)]
                        ELSE cache
            /\ Finish(q)

\* handleGetOnlineUsers(socket): Array.from(this.connectedUsers.keys())
OnlineUsers == DOMAIN connectedUsers

\* a set of user ids as an array
RECURSIVE ArrayFrom(_)
ArrayFrom(S) ==
  IF S = {} THEN <<>>
  ELSE LET x == CHOOSE y \in S : TRUE IN <<x>> \o ArrayFrom(S \ {x})

HandleGetOnlineUsers(s) ==
  /\ Idle
  /\ IsOpen(s)
  /\ out' = {Ev(s, "online_users", sockets[s].userId, NoRoom,
                ArrayFrom(OnlineUsers), "")}
  /\ UNCHANGED <<sockets, connectedUsers, userSockets, rooms, cache, isConnected,
                 redisQueue, running, issued, notified, now, inbox>>

\* ------------------------------------------------------- the event loop
\* the handler t goes on after its cache operation: answered by Redis (ok),
\* or null / false (not ok)
Resume(t, ok, q) ==
  CASE t.kind = "connect" -> ResumeConnect(t, ok, q)
    [] t.kind = "disconnect" -> ResumeDisconnect(t, ok, q)
    [] t.kind \in {"join", "leave"} -> ResumeJoinLeave(t, ok, q)
    [] t.kind = "send" -> ResumeSend(t, ok, q)
    [] t.kind = "private" -> ResumePrivate(t, ok, q)
    [] t.kind = "notify" -> ResumeNotify(t, ok, q)

\* Redis answers the oldest command on its connection
RedisReply ==
  /\ Idle
  /\ isConnected
  /\ redisQueue # <<>>
  /\ Resume(Head(redisQueue), TRUE, Tail(redisQueue))

\* the oldest command fails while the connection is down (commandTimeout,
\* maxRetriesPerRequest): cache.get / cache.set catch it, return null / false
RedisFail ==
  /\ Idle
  /\ ~isConnected
  /\ redisQueue # <<>>
  /\ Resume(Head(redisQueue), FALSE, Tail(redisQueue))

\* the handler whose cache call returned without I/O goes on in the same turn
Continue ==
  /\ ~Idle
  /\ Resume(running, FALSE, redisQueue)

\* the setInterval callback of setupPeriodicCleanup: cleanupEmptyRooms()
\* (its pruning of the messageHistory Map finds the Map empty)
PeriodicCleanup ==
  /\ Idle
  /\ rooms' = CleanupEmptyRooms(rooms)
  /\ out' = {}
  /\ UNCHANGED <<sockets, connectedUsers, userSockets, cache, isConnected,
                 redisQueue, running, issued, notified, now, inbox>>

\* the Redis client's 'close' / 'error' and 'connect' events
RedisClose ==
  /\ Idle
  /\ isConnected
  /\ isConnected' = FALSE
  /\ out' = {}
  /\ UNCHANGED <<sockets, connectedUsers, userSockets, rooms, cache, redisQueue,
                 running, issued, notified, now, inbox>>

RedisConnect ==
  /\ Idle
  /\ ~isConnected
  /\ isConnected' = TRUE
  /\ out' = {}
  /\ UNCHANGED <<sockets, connectedUsers, userSockets, rooms, cache, redisQueue,
                 running, issued, notified, now, inbox>>

\* a millisecond passes
Tick ==
  /\ Idle
  /\ now < MaxClock
  /\ now' = now + 1
  /\ out' = {}
  /\ UNCHANGED <<sockets, connectedUsers, userSockets, rooms, cache, isConnected,
                 redisQueue, running, issued, notified, inbox>>

\* the store's side of the event loop
Store == RedisReply \/ RedisFail \/ Continue \/ RedisClose \/ RedisConnect

\* connections, private messages and notifications
Next ==
  \/ \E u \in Users : HandleConnection(u)
  \/ \E s \in SocketIds : HandleDisconnection(s)
  \/ \E s \in SocketIds, target \in Users : HandlePrivateMessage(s, target, 1)
  \/ \E u \in Users : SendNotificationToUser(u)
  \/ \E s \in SocketIds : HandleGetOnlineUsers(s)
  \/ Store

Spec == Init /\ [][Next]_vars

\* the Connection Registry alone: connections opened and closed
NextRegistry ==
  \/ \E u \in Users : HandleConnection(u)
  \/ \E s \in SocketIds : HandleDisconnection(s)
  \/ \E s \in SocketIds : HandleGetOnlineUsers(s)
  \/ Store

SpecRegistry == Init /\ [][NextRegistry]_vars

\* connections, rooms and one room message
NextRooms ==
  \/ \E u \in Users : HandleConnection(u)
  \/ \E s \in SocketIds : HandleDisconnection(s)
  \/ \E s \in SocketIds, r \in Rooms : HandleJoinRoom(s, r)
  \/ \E s \in SocketIds, r \in Rooms : HandleLeaveRoom(s, r)
  \/ \E s \in SocketIds, r \in RoomIds, body \in Bodies :
       Len(issued) < MaxRoomMsgs /\ HandleSendMessage(s, r, body, 1)
  \/ RedisReply

SpecRooms == Init /\ [][NextRooms]_vars

\* members of a room sending to it while the store comes and goes
NextOrder ==
  \/ \E u \in Users : HandleConnection(u)
  \/ \E s \in SocketIds, r \in Rooms : HandleJoinRoom(s, r)
  \/ \E s \in SocketIds, r \in Rooms : HandleSendMessage(s, r, "hi", 1)
  \/ Store

SpecOrder == Init /\ [][NextOrder]_vars

\* message ids: the clock and the random suffix
NextIds ==
  \/ \E u \in Users : HandleConnection(u)
  \/ \E s \in SocketIds, r \in Rooms : HandleJoinRoom(s, r)
  \/ \E s \in SocketIds, r \in Rooms, rnd \in 1..MaxRand :
       HandleSendMessage(s, r, "hi", rnd)
  \/ RedisReply
  \/ Tick

SpecIds == Init /\ [][NextIds]_vars

\* the Room Membership Tracker: joins, leaves, disconnects and the cleanup
NextTracker ==
  \/ \E u \in Users : HandleConnection(u)
  \/ \E s \in SocketIds : HandleDisconnection(s)
  \/ \E s \in SocketIds, r \in Rooms : HandleJoinRoom(s, r)
  \/ \E s \in SocketIds, r \in Rooms : HandleLeaveRoom(s, r)
  \/ PeriodicCleanup
  \/ RedisReply

SpecTracker == Init /\ [][NextTracker]_vars

\* join and leave handlers of open connections, overlapping at their awaits
NextMembers ==
  \/ \E u \in Users : HandleConnection(u)
  \/ \E s \in SocketIds, r \in Rooms : HandleJoinRoom(s, r)
  \/ \E s \in SocketIds, r \in Rooms : HandleLeaveRoom(s, r)
  \/ RedisReply

SpecMembers == Init /\ [][NextMembers]_vars

\* commands that are accepted and commands that are rejected, each arriving
\* when the handlers before it have finished
NextReject ==
  \/ /\ redisQueue = <<>>
     /\ \/ \E u \in Users : HandleConnection(u)
        \/ \E s \in SocketIds, r \in Rooms : HandleJoinRoom(s, r)
        \/ \E s \in SocketIds, r \in Rooms, body \in Bodies :
             HandleSendMessage(s, r, body, 1)
  \/ RedisReply

SpecReject == Init /\ [][NextReject]_vars

\* joins and room messages, each arriving when the handlers before it have
\* finished, while the store is there and after it has gone (at any moment,
\* also in the middle of a handler)
NextOutage ==
  \/ /\ redisQueue = <<>>
     /\ \/ \E u \in Users : HandleConnection(u)
        \/ \E s \in SocketIds, r \in Rooms : HandleJoinRoom(s, r)
        \/ \E s \in SocketIds, r \in Rooms : HandleSendMessage(s, r, "hi", 1)
  \/ RedisReply
  \/ RedisFail
  \/ Continue
  \/ RedisClose

SpecOutage == Init /\ [][NextOutage]_vars

\* notifications for principals that come and go
NextNotify ==
  \/ \E u \in Users : HandleConnection(u)
  \/ \E s \in SocketIds : HandleDisconnection(s)
  \/ \E u \in Users : SendNotificationToUser(u)
  \/ Store

SpecNotify == Init /\ [][NextNotify]_vars

\* room messages among members whose connections may close while a message
\* is being stored; connections and joins arrive when no handler is waiting
NextPersist ==
  \/ redisQueue = <<>> /\ \E u \in Users : HandleConnection(u)
  \/ redisQueue = <<>> /\ \E s \in SocketIds, r \in Rooms : HandleJoinRoom(s, r)
  \/ \E s \in SocketIds : HandleDisconnection(s)
  \/ \E s \in SocketIds, r \in Rooms :
       Len(issued) < MaxRoomMsgs /\ HandleSendMessage(s, r, "hi", 1)
  \/ RedisReply

SpecPersist == Init /\ [][NextPersist]_vars

\* room messages and private messages, well-formed or not
NextOutcome ==
  \/ \E u \in Users : HandleConnection(u)
  \/ \E s \in SocketIds, r \in Rooms : HandleJoinRoom(s, r)
  \/ \E s \in SocketIds, r \in Rooms, body \in Bodies :
       HandleSendMessage(s, r, body, 1)
  \/ \E s \in SocketIds, target \in Users, body \in Payloads :
       HandlePrivateMessageData(s, target, body, 1)
  \/ RedisReply

SpecOutcome == Init /\ [][NextOutcome]_vars

\* typing indicators among connections that join and leave
NextTyping ==
  \/ \E u \in Users : HandleConnection(u)
  \/ \E s \in SocketIds, r \in Rooms : HandleJoinRoom(s, r)
  \/ \E s \in SocketIds, r \in Rooms : HandleLeaveRoom(s, r)
  \/ \E s \in SocketIds, r \in RoomIds : HandleTypingStart(s, r)
  \/ \E s \in SocketIds, r \in RoomIds : HandleTypingStop(s, r)
  \/ RedisReply

SpecTyping == Init /\ [][NextTyping]_vars

\* members sending to a room while the store is available, their handlers
\* overlapping at the awaits of storeMessage
NextAppend ==
  \/ \E u \in Users : HandleConnection(u)
  \/ \E s \in SocketIds, r \in Rooms : HandleJoinRoom(s, r)
  \/ \E s \in SocketIds, r \in Rooms : HandleSendMessage(s, r, "hi", 1)
  \/ RedisReply

SpecAppend == Init /\ [][NextAppend]_vars

\* sockets joining a room (each once) while messages are sent to it
NextJoinRace ==
  \/ \E u \in Users : HandleConnection(u)
  \/ \E s \in SocketIds, r \in Rooms :
       r \notin sockets[s].rooms /\ HandleJoinRoom(s, r)
  \/ \E s \in SocketIds, r \in Rooms : HandleSendMessage(s, r, "hi", 1)
  \/ RedisReply

SpecJoinRace == Init /\ [][NextJoinRace]_vars

\* the principals that send join_room in a run of NextLeave
Joiners == {"A"}

\* leave_room from principals that joined and from principals that never did
NextLeave ==
  \/ \E u \in Users : HandleConnection(u)
  \/ \E s \in SocketIds, r \in Rooms :
       sockets[s].userId \in Joiners /\ HandleJoinRoom(s, r)
  \/ \E s \in SocketIds, r \in Rooms : HandleLeaveRoom(s, r)
  \/ RedisReply

SpecLeave == Init /\ [][NextLeave]_vars

\* the history of a room that has had n messages before: they are numbered
\* from -RoomHistoryCap upwards, the messages of the run from 1
Prefill(n) == [i \in 1..n |-> i - RoomHistoryCap - 1]

\* user A is connected and in the room, whose history holds n earlier
\* messages, n being one of lengths
InitWithHistory(lengths) ==
  /\ sockets = <<[userId |-> "A", connected |-> TRUE,
                  rooms |-> {UserRoom("A"), RoleRoom, "general"}]>>
  /\ connectedUsers = MapSet(EmptyMap, "A", 1)
  /\ userSockets = MapSet(EmptyMap, 1, "A")
  /\ rooms = MapSet(EmptyMap, "general", {"A"})
  /\ \E n \in lengths :
       cache = [EmptyCache EXCEPT
                  !.online = MapSet(EmptyMap, "A", TRUE),
                  !.metadata = MapSet(EmptyMap, "general", <<"A">>),
                  !.messages = IF n = 0 THEN EmptyMap
                               ELSE MapSet(EmptyMap, "general", Prefill(n))]
  /\ isConnected = TRUE
  /\ redisQueue = <<>>
  /\ running = NoTask
  /\ issued = <<>>
  /\ notified = 0
  /\ now = 0
  /\ inbox = <<<<>>>>
  /\ out = {}

InitHistory == InitWithHistory(0..RoomHistoryCap)

\* histories shorter than, as long as and longer than one replay
InitReplay ==
  InitWithHistory({0, HistoryReplay - 1, HistoryReplay, HistoryReplay + 1})

\* room messages sent one after the other: each storeMessage has finished
\* before the next send_message arrives
NextHistory ==
  \/ \E s \in SocketIds, r \in Rooms :
       redisQueue = <<>> /\ HandleSendMessage(s, r, "hi", 1)
  \/ RedisReply

SpecHistory == InitHistory /\ [][NextHistory]_vars

\* joins of a room that already has a history, and messages sent to it one
\* after the other; a connection arrives when no handler is waiting
NextReplay ==
  \/ redisQueue = <<>> /\ \E u \in Users : HandleConnection(u)
  \/ \E s \in SocketIds, r \in Rooms : HandleJoinRoom(s, r)
  \/ \E s \in SocketIds, r \in Rooms :
       redisQueue = <<>> /\ HandleSendMessage(s, r, "hi", 1)
  \/ RedisReply

SpecReplay == InitReplay /\ [][NextReplay]_vars

\* the offline queue of a principal that has had n notifications queued
\* before: they are numbered from -OfflineCap upwards, those of the run from 1
PrefillQueue(n) == [i \in 1..n |-> i - OfflineCap - 1]

\* nobody is connected and the offline queue of user A holds n notifications
InitOffline ==
  /\ sockets = <<>>
  /\ connectedUsers = EmptyMap
  /\ userSockets = EmptyMap
  /\ rooms = EmptyMap
  /\ \E n \in 0..OfflineCap :
       cache = [EmptyCache EXCEPT
                  !.offline = IF n = 0 THEN EmptyMap
                              ELSE MapSet(EmptyMap, "A", PrefillQueue(n))]
  /\ isConnected = TRUE
  /\ redisQueue = <<>>
  /\ running = NoTask
  /\ issued = <<>>
  /\ notified = 0
  /\ now = 0
  /\ inbox = <<>>
  /\ out = {}

\* notifications for principals that are not connected, one after the other
NextOffline ==
  \/ \E u \in Users : redisQueue = <<>> /\ SendNotificationToUser(u)
  \/ RedisReply

SpecOffline == InitOffline /\ [][NextOffline]_vars

\* ================================================================ claims
\* the sockets handed to handleConnection for user u, the latest of them
SocketsOf(u) == {s \in SocketIds : sockets[s].userId = u}
Latest(u) == CHOOSE s \in SocketsOf(u) : \A x \in SocketsOf(u) : x <= s

\* C1: a principal never has two live connections: once a later connection
\* of the same principal has been opened, every earlier one is closed and no
\* longer attributed to the principal in userSockets.
C1_Supersession ==
  \A u \in Users : \A s \in SocketsOf(u) :
    s # Latest(u) => ~IsOpen(s) /\ ~MapHas(userSockets, s)

\* C2: while no connection of principal P has been closed, the registry
\* lookup connectedUsers.get(P) is exactly the most recently opened socket.
C2_ResolveMostRecent ==
  \A u \in Users :
    (SocketsOf(u) # {} /\ \A s \in SocketsOf(u) : IsOpen(s)) =>
      MapHas(connectedUsers, u) /\ connectedUsers[u] = Latest(u)

\* C2 witness: a principal opened a second connection and the lookup
\* returns it, not the first.
C2_Witness ==
  \E u \in Users :
    /\ Cardinality(SocketsOf(u)) >= 2
    /\ \A s \in SocketsOf(u) : IsOpen(s)
    /\ MapHas(connectedUsers, u)
    /\ connectedUsers[u] = Latest(u)

\* C3: deregistration is keyed by handle: closing a socket that is not the
\* registered one leaves the registry alone, so a principal whose latest
\* connection is open is resolvable to it and listed by getOnlineUsers.
C3_DeregisterByHandle ==
  \A u \in Users :
    (SocketsOf(u) # {} /\ IsOpen(Latest(u))) =>
      /\ MapHas(connectedUsers, u)
      /\ connectedUsers[u] = Latest(u)
      /\ u \in OnlineUsers

\* C4: two messages of one room reach every socket in the order their send
\* commands were processed (the order the message objects were created).
C4_RoomOrder ==
  \A s \in SocketIds : \A i, j \in 1..Len(inbox[s]) :
    (i < j /\ issued[inbox[s][i]].roomId = issued[inbox[s][j]].roomId) =>
      inbox[s][i] < inbox[s][j]

\* C5: message ids are unique and strictly increasing in creation order.
C5_IdsIncreasing ==
  \A i, j \in 1..Len(issued) : i < j => IdLess(issued[i].id, issued[j].id)

\* membersOf(roomId) of the Room Membership Tracker
MembersOf(r) == GetOr(rooms, r, {})

\* C6: a room message is accepted (a message object is created for it) only
\* if its sender is a member of the target room in the rooms Map.
C6_OnlyMembersSend ==
  [][\A s \in SocketIds, r \in RoomIds, body \in Bodies :
       (HandleSendMessage(s, r, body, 1) /\ Len(issued') > Len(issued)) =>
         sockets[s].userId \in MembersOf(r)]_vars

\* C7: the fan-out of an accepted room message reaches, exactly once, the
\* registered connection of every member of the room in the rooms Map, and
\* no other connection.
C7_FanOut ==
  \A k \in 1..Len(issued) :
    LET r == issued[k].roomId
        got == {e.to : e \in {x \in out : x.ev = "new_message" /\ x.data = <<k>>}}
        due == {connectedUsers[u] : u \in MembersOf(r) \cap DOMAIN connectedUsers}
    IN (\E e \in out : e.ev \in {"new_message", "message_sent"} /\ e.data = <<k>>) =>
         /\ got = due
         /\ \A s \in got :
              Cardinality({i \in 1..Len(inbox[s]) : inbox[s][i] = k}) = 1

\* the offline-notification queue of a principal in the store
OfflineQueue(u) == GetOr(cache.offline, u, <<>>)

\* C8: when a principal with queued offline notifications connects, each of
\* them is delivered to the new connection and the queue is left empty.
C8_OfflineRoundTrip ==
  [][\A u \in Users :
       (HandleConnection(u) /\ OfflineQueue(u) # <<>>) =>
         /\ \A i \in 1..Len(OfflineQueue(u)) :
              \E e \in out' : /\ e.to = Len(sockets')
                              /\ e.ev = "notification"
                              /\ e.data = <<OfflineQueue(u)[i]>>
         /\ GetOr(cache'.offline, u, <<>>) = <<>>]_vars

\* C9: a private message to a principal without a registered connection is
\* not an error: the sender gets no error event and the message goes on to
\* be stored for the target.
C9_OfflineIsNotAnError ==
  [][\A s \in SocketIds, target \in Users :
       (HandlePrivateMessage(s, target, 1) /\ ~MapHas(connectedUsers, target)) =>
         /\ \A e \in out' : e.ev # "private_message_error"
         /\ \E i \in 1..Len(issued') : i > Len(issued)]_vars

\* the handler a step of the store resumes
StoreStep == RedisReply \/ RedisFail \/ Continue
ResumedTask ==
  IF ~Idle THEN running
  ELSE IF redisQueue # <<>> THEN Head(redisQueue) ELSE NoTask

\* C10: when handleDisconnection has run to its end for principal P, P is a
\* member of no room of the rooms Map, and every other member with a
\* registered connection of each room P was in has been sent user_offline or
\* user_left_room naming P.
C10_DisconnectCleansUp ==
  [][(StoreStep /\ ResumedTask.kind = "disconnect") =>
       LET u == ResumedTask.userId IN
       /\ \A r \in DOMAIN rooms' : u \notin rooms'[r]
       /\ \A r \in DOMAIN rooms : u \in rooms[r] =>
            \A v \in (rooms[r] \ {u}) \cap DOMAIN connectedUsers :
              \E e \in out' : /\ e.to = connectedUsers[v]
                              /\ e.ev \in {"user_offline", "user_left_room"}
                              /\ e.userId = u
                              /\ e.roomId = r]_vars

\* C11: no room of the rooms Map has an empty member set: not after a
\* cleanup pass (cleanupEmptyRooms at the end of handleDisconnection or from
\* the periodic timer) that follows joins, leaves and disconnects, and not
\* between two handlers either.
C11_NoEmptyRoom ==
  \A r \in DOMAIN rooms : rooms[r] # {}

\* C11 witness: a room was joined and left until it was empty, the sockets
\* were closed, every handleDisconnection ran its cleanup to the end, and
\* the room is gone.
C11_Witness ==
  /\ SocketIds # {}
  /\ \A s \in SocketIds : ~IsOpen(s)
  /\ Idle /\ redisQueue = <<>>
  /\ \E r \in Rooms : /\ MapHas(cache.metadata, r)
                       /\ cache.metadata[r] = <<>>
                       /\ ~MapHas(rooms, r)

\* the stored history window of a room
History(r) == GetOr(cache.messages, r, <<>>)

\* C12: the history window of a room never holds more than RoomHistoryCap
\* messages, and each of a series of sequential appends puts the message at
\* the end of the window, evicting the oldest one when the window was full
\* (so RoomHistoryCap + 1 appends leave exactly RoomHistoryCap, in append
\* order).
C12_HistoryWindow ==
  /\ [](\A r \in DOMAIN cache.messages : Len(cache.messages[r]) <= RoomHistoryCap)
  /\ [][(StoreStep /\ ResumedTask.kind = "send" /\ ResumedTask.pc = "msgs_set") =>
         LET r == ResumedTask.roomId
             old == History(r)
             new == GetOr(cache'.messages, r, <<>>)
         IN IF Len(old) < RoomHistoryCap
              THEN new = Append(old, ResumedTask.msg)
              ELSE /\ new = Append(Tail(old), ResumedTask.msg)
                   /\ Len(new) = RoomHistoryCap]_vars

\* C12 witness: the window is full, its oldest message has been evicted and
\* its newest is a message of the run.
C12_Witness ==
  \E r \in Rooms :
    /\ Len(History(r)) = RoomHistoryCap
    /\ History(r)[1] > -RoomHistoryCap
    /\ History(r)[RoomHistoryCap] >= 1

Rejected == \E e \in out' : e.ev \in {"message_error", "join_room_error"}

\* C14: a send_message with an empty or whitespace-only body is rejected,
\* and a rejected send_message or join_room changes no stored history and no
\* membership, creates no message object (no id), starts no store operation
\* and sends its error event to the originating socket only.
C14_RejectedNoEffect ==
  [][/\ \A s \in SocketIds, r \in Rooms, body \in Bodies :
          HandleSendMessage(s, r, body, 1) =>
            /\ Trim(body) = "" => Rejected
            /\ Rejected =>
                 /\ UNCHANGED <<cache, rooms, sockets, issued, redisQueue, running>>
                 /\ \A e \in out' : e.to = s /\ e.ev = "message_error"
     /\ \A s \in SocketIds, r \in Rooms :
          (HandleJoinRoom(s, r) /\ Rejected) =>
            /\ UNCHANGED <<cache, rooms, sockets, issued, redisQueue, running>>
            /\ \A e \in out' : e.to = s /\ e.ev = "join_room_error"]_vars

\* C14 witness: a socket that is not in the room has just been refused a
\* room message while the room has a member whose socket is open.
C14_Witness ==
  \E e \in out :
    /\ e.ev = "message_error" /\ e.error = "not_in_room"
    /\ \E s \in SocketIds \ {e.to}, r \in Rooms :
         IsOpen(s) /\ r \in sockets[s].rooms /\ sockets[s].userId \in MembersOf(r)
    /\ issued = <<>>

\* C15: when a principal whose earlier connection has closed connects again,
\* the new socket is sent message_history for every room the principal is
\* still a member of.
C15_HistoryOnReconnect ==
  [][\A u \in Users :
       (HandleConnection(u) /\ \E s \in SocketsOf(u) : ~IsOpen(s)) =>
         \A r \in Rooms :
           u \in MembersOf(r) =>
             \E e \in out' : /\ e.to = Len(sockets')
                             /\ e.ev = "message_history"
                             /\ e.roomId = r]_vars

\* C16: a step of a handler whose cache operation finds the store
\* unavailable stores nothing and sends no error event; the handler goes on
\* as after an empty read: a room message is still delivered to every socket
\* in the room and confirmed to its sender, a join is still answered with
\* joined_room and with an empty message_history.
C16_StoreOutage ==
  [][(StoreStep /\ ~isConnected) =>
       LET t == ResumedTask
           s == t.socket
       IN
       /\ cache' = cache
       /\ \A e \in out' : e.ev \notin {"message_error", "join_room_error"}
       /\ (t.kind = "send" /\ t.pc = "msgs_get") =>
            running' = [t EXCEPT !.pc = "msgs_set", !.val = <<t.msg>>]
       /\ (t.kind = "send" /\ t.pc = "msgs_set") =>
            /\ \A x \in InRoom(t.roomId) :
                 \E e \in out' : /\ e.to = x /\ e.ev = "new_message"
                                 /\ e.data = <<t.msg>>
            /\ IsOpen(s) => \E e \in out' : /\ e.to = s /\ e.ev = "message_sent"
                                             /\ e.data = <<t.msg>>
       /\ (t.kind = "join" /\ t.pc = "meta_set" /\ IsOpen(s)) =>
            \E e \in out' : e.to = s /\ e.ev = "joined_room" /\ e.roomId = t.roomId
       /\ (t.kind = "join" /\ t.pc = "hist_get" /\ IsOpen(s)) =>
            \E e \in out' : /\ e.to = s /\ e.ev = "message_history"
                            /\ e.roomId = t.roomId /\ e.data = <<>>]_vars

\* C16 witness: with the store away a join has just been answered with an
\* empty message_history, and a room message that was delivered is not in
\* the stored history.
C16_Witness ==
  /\ ~isConnected
  /\ \E e \in out : e.ev = "message_history" /\ e.data = <<>>
  /\ \E x \in SocketIds : \E i \in 1..Len(inbox[x]) :
       ~Includes(History(issued[inbox[x][i]].roomId), inbox[x][i])

\* the handlers that wait for the store or go on in the current turn
Pending == {redisQueue[i] : i \in 1..Len(redisQueue)} \cup ({running} \ {NoTask})

\* C17: sendNotificationToUser does one of two things.  When the principal
\* has an entry in connectedUsers, exactly one notification event goes to
\* that (open) socket, nothing is stored and no store operation is started
\* (the call returns true).  Otherwise no event is emitted, now or later in
\* the call, and the notification is written to the end of the principal's
\* offline queue (the call returns false).
C17_NotifyOneOfTwo ==
  [][/\ \A u \in Users :
          SendNotificationToUser(u) =>
            IF MapHas(connectedUsers, u)
              THEN /\ IsOpen(connectedUsers[u])
                   /\ out' = {Ev(connectedUsers[u], "notification", u, NoRoom,
                                 <<notified'>>, "")}
                   /\ UNCHANGED <<cache, redisQueue, running>>
              ELSE /\ out' = {}
                   /\ cache' = cache
                   /\ \E t \in Pending' : /\ t.kind = "notify" /\ t.userId = u
                                          /\ t.msg = notified'
     /\ (StoreStep /\ ResumedTask.kind = "notify") =>
          /\ out' = {}
          /\ ResumedTask.pc = "off_get" =>
               \E t \in Pending' : /\ t.kind = "notify" /\ t.pc = "off_set"
                                   /\ t.msg = ResumedTask.msg
          /\ (ResumedTask.pc = "off_set" /\ isConnected) =>
               LET queue == GetOr(cache'.offline, ResumedTask.userId, <<>>) IN
               /\ queue # <<>>
               /\ queue[Len(queue)] = ResumedTask.msg
               /\ Len(queue) <= OfflineCap]_vars

\* C17 witness: a notification for a principal without a registered
\* connection has been stored in the principal's offline queue while another
\* principal is connected.
C17_Witness ==
  \E u \in Users :
    /\ ~MapHas(connectedUsers, u)
    /\ OfflineQueue(u) # <<>>
    /\ connectedUsers # EmptyMap
    /\ Pending = {}

\* the leave_room of socket s takes the last member out of room r
LeaveEmpties(s, r) ==
  /\ HandleLeaveRoom(s, r)
  /\ MapHas(rooms, r)
  /\ rooms[r] \ {sockets[s].userId} = {}

C19_SerialTracker ==
  /\ [](\A u \in Users, r \in Rooms :
          LET open == {s \in SocketsOf(u) : IsOpen(s)} IN
          (open # {} /\ \A s \in open : r \in sockets[s].rooms) => u \in MembersOf(r))
  /\ [][/\ \A s \in SocketIds, r \in Rooms :
             HandleJoinRoom(s, r) =>
               rooms' = MapSet(rooms, r, MembersOf(r) \cup {sockets[s].userId})
        /\ \A s \in SocketIds, r \in Rooms :
             HandleLeaveRoom(s, r) =>
               /\ GetOr(rooms', r, {}) = MembersOf(r) \ {sockets[s].userId}
               /\ \A x \in DOMAIN rooms \ {r} : MapHas(rooms', x) /\ rooms'[x] = rooms[x]
               /\ DOMAIN rooms' \subseteq DOMAIN rooms
        /\ StoreStep => rooms' = rooms]_vars

\* C19 witness: two users have asked to join a room that did not exist, both
\* handlers wait for the store, and the room's one member set holds both.
C19_Witness ==
  \E i, j \in 1..Len(redisQueue) :
    LET t == redisQueue[i]
        x == redisQueue[j]
    IN
    /\ t.kind = "join" /\ t.pc = "meta_get"
    /\ x.kind = "join" /\ x.pc = "meta_get"
    /\ t.roomId = x.roomId /\ t.userId # x.userId
    /\ ~MapHas(cache.metadata, t.roomId)
    /\ MembersOf(t.roomId) = {t.userId, x.userId}

\* the step is the one in which storeMessage's cache.set for room r returns
AppendDone(r) ==
  /\ StoreStep
  /\ ResumedTask.kind = "send" /\ ResumedTask.pc = "msgs_set"
  /\ ResumedTask.roomId = r

\* C20: with the store available, new_message for a room message is sent
\* only in the step that follows the completed write of the history holding
\* it, and a message leaves the stored history only through a later
\* storeMessage write to the same room, never through a disconnect or an
\* undelivered event.
C20_PersistBeforeFanOut ==
  [][/\ \A e \in out' :
          e.ev = "new_message" =>
            /\ AppendDone(e.roomId)
            /\ e.data = <<ResumedTask.msg>>
            /\ Includes(GetOr(cache'.messages, e.roomId, <<>>), ResumedTask.msg)
     /\ \A r \in DOMAIN cache.messages : \A i \in 1..Len(cache.messages[r]) :
          ~Includes(GetOr(cache'.messages, r, <<>>), cache.messages[r][i]) =>
            AppendDone(r)]_vars

\* C20 witness: a room message has just been delivered and is in the stored
\* history, while a member's connection closed after the message was
\* accepted (its handleDisconnection still waits behind the write).
C20_Witness ==
  \E e \in out :
    /\ e.ev = "new_message"
    /\ Includes(History(e.roomId), e.data[1])
    /\ \E i \in 1..Len(redisQueue) :
         /\ redisQueue[i].kind = "disconnect"
         /\ redisQueue[i].userId \in MembersOf(e.roomId)
         /\ redisQueue[i].userId # e.userId

\* the outcome events the step sends to socket s
OutcomesTo(s) ==
  {e \in out' : /\ e.to = s
                /\ e.ev \in {"message_sent", "message_error",
                              "private_message_sent", "private_message_error"}}

\* C21: every send_message and send_private_message command is answered
\* with exactly one outcome event to its sender: a private message in the
\* step that handles it, a room message either there (rejected) or, when it
\* was accepted, in the step after storeMessage and in no other step.
C21_OneOutcome ==
  [][/\ \A s \in SocketIds, target \in Users, body \in Payloads :
          HandlePrivateMessageData(s, target, body, 1) =>
            Cardinality(OutcomesTo(s)) = 1
     /\ \A s \in SocketIds, r \in Rooms, body \in Bodies :
          HandleSendMessage(s, r, body, 1) =>
            IF Len(issued') > Len(issued) THEN OutcomesTo(s) = {}
            ELSE Cardinality(OutcomesTo(s)) = 1
     /\ (StoreStep /\ ResumedTask.kind \in {"send", "private"}) =>
          IF ResumedTask.kind = "send" /\ ResumedTask.pc = "msgs_set"
               /\ IsOpen(ResumedTask.socket)
            THEN Cardinality(OutcomesTo(ResumedTask.socket)) = 1
            ELSE OutcomesTo(ResumedTask.socket) = {}]_vars

\* C22: typing_start / typing_stop for a room sends user_typing to sockets
\* of members of the room in the rooms Map other than the sender's socket,
\* to the registered socket of each other member at least, and changes
\* nothing: no registry entry, membership, stored record or message object.
C22_TypingFrame ==
  [][\A s \in SocketIds, r \in RoomIds :
       (HandleTypingStart(s, r) \/ HandleTypingStop(s, r)) =>
         /\ \A e \in out' : /\ e.ev = "user_typing"
                             /\ e.to # s
                             /\ sockets[e.to].userId \in MembersOf(r)
         /\ \A u \in (MembersOf(r) \ {sockets[s].userId}) \cap DOMAIN connectedUsers :
              \E e \in out' : e.to = connectedUsers[u]
         /\ UNCHANGED <<sockets, connectedUsers, userSockets, rooms, cache,
                        redisQueue, running, issued, notified>>]_vars

\* the smaller of two numbers
Min(a, b) == IF a <= b THEN a ELSE b

\* C23: with the store available, a join handler sends its (open) socket
\* exactly one message_history event, in the step that reads the history:
\* its messages are the last min(HistoryReplay, n) of the n messages stored
\* for the room at that moment, in stored order.
C23_ReplaySuffix ==
  [][(StoreStep /\ ResumedTask.kind = "join" /\ isConnected) =>
       LET t == ResumedTask
           h == History(t.roomId)
           n == Len(h)
           m == Min(HistoryReplay, n)
           sent == {e \in out' : e.ev = "message_history"}
       IN IF t.pc = "hist_get" /\ IsOpen(t.socket)
            THEN sent = {Ev(t.socket, "message_history", t.userId, t.roomId,
                            [i \in 1..m |-> h[n - m + i]], "")}
            ELSE sent = {}]_vars

\* C23 witness: a joiner has just been sent a message_history of
\* HistoryReplay messages out of a longer stored history, ending with the
\* newest stored message.
C23_Witness ==
  \E e \in out :
    /\ e.ev = "message_history"
    /\ Len(e.data) = HistoryReplay
    /\ Len(History(e.roomId)) > HistoryReplay
    /\ e.data[HistoryReplay] = History(e.roomId)[Len(History(e.roomId))]

\* C24: the offline queue of a principal never holds more than OfflineCap
\* notifications, and each of a series of sequential pushes puts the
\* notification at the end of the queue, evicting the oldest one when the
\* queue was full; the others keep their order.
C24_OfflineQueueBound ==
  /\ [](\A u \in DOMAIN cache.offline : Len(cache.offline[u]) <= OfflineCap)
  /\ [][(StoreStep /\ ResumedTask.kind = "notify" /\ ResumedTask.pc = "off_set") =>
         LET old == OfflineQueue(ResumedTask.userId)
             new == GetOr(cache'.offline, ResumedTask.userId, <<>>)
         IN IF Len(old) < OfflineCap
              THEN new = Append(old, ResumedTask.msg)
              ELSE /\ new = Append(Tail(old), ResumedTask.msg)
                   /\ Len(new) = OfflineCap]_vars

\* C24 witness: a queue is full, its oldest notification has been evicted
\* and its newest is a notification of the run.
C24_Witness ==
  \E u \in Users :
    /\ Len(OfflineQueue(u)) = OfflineCap
    /\ OfflineQueue(u)[1] > -OfflineCap
    /\ OfflineQueue(u)[OfflineCap] >= 1

\* C25: once no send_message handler is waiting, every accepted room
\* message is in the stored history of its room exactly once, unless the
\* history is full (the message may then have been evicted).
C25_NoLostAppend ==
  (\A t \in Pending : t.kind # "send") =>
    \A k \in 1..Len(issued) :
      LET h == History(issued[k].roomId) IN
      \/ Len(h) = RoomHistoryCap
      \/ Cardinality({i \in 1..Len(h) : h[i] = k}) = 1

\* the new_message events of room r that socket s has received
NewMessagesOf(s, r) ==
  {inbox[s][i] : i \in {j \in 1..Len(inbox[s]) : issued[inbox[s][j]].roomId = r}}

\* C26: a socket that joins a room has received no new_message of the room
\* while its join handler has not yet sent message_history, nor at the
\* moment message_history is delivered (so none of the messages listed in
\* message_history has reached it as new_message as well).
C26_HistoryBeforeNew ==
  /\ \A t \in Pending : t.kind = "join" => NewMessagesOf(t.socket, t.roomId) = {}
  /\ \A e \in out : e.ev = "message_history" => NewMessagesOf(e.to, e.roomId) = {}

\* the principals with an open socket in the transport room r
Subscribers(r) == {sockets[s].userId : s \in {x \in InRoom(r) : IsOpen(x)}}

\* C27: whenever no handler is waiting, the member set of a room in the
\* rooms Map is the set of principals with an open socket in the room's
\* transport room.
C27_ViewsAgree ==
  Pending = {} => \A r \in Rooms : MembersOf(r) = Subscribers(r)

\* C28: user_left_room naming P is broadcast only if P was a member of the
\* room before its leave_room.  Here only the principals in Joiners ever
\* join, so the others are never members of any room: no user_left_room
\* names one of them, and the rooms Map never holds one of them.
C28_LeftOnlyByMembers ==
  /\ \A e \in out : e.ev = "user_left_room" => e.userId \in Joiners
  /\ \A r \in DOMAIN rooms : rooms[r] \subseteq Joiners

\* the PresenceMark of u: the value stored under user:{u}:online
PresenceMark(u) == GetOr(cache.online, u, FALSE)

\* C29: whenever no handler is waiting, the PresenceMark of a principal is
\* online exactly when an open socket of the principal is registered in
\* userSockets.
C29_PresenceMatchesRegistry ==
  Pending = {} =>
    \A u \in Users :
      PresenceMark(u) <=>
        \E s \in SocketIds :
          IsOpen(s) /\ MapHas(userSockets, s) /\ userSockets[s] = u

\* the members list stored under room:{r}:metadata
StoredMembers(r) == GetOr(cache.metadata, r, <<>>)

\* C30: whenever no handler is waiting, the members list stored in a room's
\* metadata record holds each principal at most once and holds exactly the
\* members of the room in the rooms Map.
C30_MetadataMatchesTracker ==
  Pending = {} =>
    \A r \in Rooms :
      LET m == StoredMembers(r) IN
      /\ \A i, j \in 1..Len(m) : m[i] = m[j] => i = j
      /\ {m[i] : i \in 1..Len(m)} = MembersOf(r)

====
